---- MODULE Spec2Model ----
(***************************************************************************)
(* A model of dummydb (src/dummydb/main.py): Table and Database.           *)
(*                                                                         *)
(* Python values are encoded as integers: None is 0, a small integer is    *)
(* itself, and a value >= RefBase is a reference to a                      *)
(* list object in `heap`.  A dict over the field names is a total function *)
(* on Fields whose value Absent means "key not in the dict".  References   *)
(* make aliasing (dict.update's shallow copy) and deepcopy observable.     *)
(***************************************************************************)
EXTENDS Integers, Sequences, FiniteSets, TLC

\* ---- bounds of the model -------------------------------------------------
MaxRecords == 2        \* records per table where the order of records matters
MaxStoreRecords == 1   \* records per table where only the set of tables matters
MaxListLen == 2        \* a list grows to at most this many elements
MaxMutations == 1      \* mutations by the caller of what one call left it holding
MaxStale == 1          \* handles of dropped tables the caller goes on holding
MaxInserts == 3        \* records inserted with a serial number

\* ---- encoding of Python values -------------------------------------------
None == 0
Absent == -1
NewList == -2
NotADict == -3
RefBase == 100

FieldSeq == <<"a", "b">>
Fields == {FieldSeq[i] : i \in 1..Len(FieldSeq)}
NameSeq == <<"users", "posts">>
Names == {NameSeq[i] : i \in 1..Len(NameSeq)}

Scalars == {None, 1}
Ref(o) == RefBase + o
IsRef(v) == v >= RefBase
Oid(v) == v - RefBase

EmptyMap == [f \in Fields |-> Absent]
EmptyHeap == << >>
EmptyMemo == << >>

\* an argument of a call: a dict, None, or a non-empty list (not a mapping)
DictArg(m) == [kind |-> "dict", m |-> m]
NoneArg == [kind |-> "none", m |-> EmptyMap]
ListArg == [kind |-> "list", m |-> EmptyMap]

\* return values and exceptions
RetBool(b) == [kind |-> "bool", val |-> IF b THEN 1 ELSE 0]
RetInt(n) == [kind |-> "int", val |-> n]
RetList == [kind |-> "list", val |-> 0]
RetNone == [kind |-> "none", val |-> 0]
RetTable(t) == [kind |-> "table", val |-> t]
Raise(e) == [kind |-> e, val |-> 0]

\* ---- the heap of list objects --------------------------------------------
Fresh(h) ==
  CHOOSE o \in 1..(Cardinality(DOMAIN h) + 1) :
    /\ o \notin DOMAIN h
    /\ \A p \in 1..(o - 1) : p \in DOMAIN h

Alloc(h, o, c) == [x \in (DOMAIN h) \cup {o} |-> IF x = o THEN c ELSE h[x]]

Restrict(h, S) == [x \in (DOMAIN h) \cap S |-> h[x]]

MapRefs(m) == {Oid(m[f]) : f \in {g \in Fields : IsRef(m[g])}}
SeqRefs(recs) == UNION {MapRefs(recs[i]) : i \in 1..Len(recs)}

\* ---- copy.deepcopy --------------------------------------------------------
\* deepcopy of one value under a memo (old object -> its copy)
DeepCopyVal(v, memo, h) ==
  IF ~IsRef(v) THEN [val |-> v, memo |-> memo, heap |-> h]
  ELSE IF Oid(v) \in DOMAIN memo
       THEN [val |-> Ref(memo[Oid(v)]), memo |-> memo, heap |-> h]
       ELSE LET o == Fresh(h)
            IN [val |-> Ref(o), memo |-> (Oid(v) :> o) @@ memo,
                heap |-> Alloc(h, o, h[Oid(v)])]

RECURSIVE DeepCopyFields(_, _, _, _, _)
DeepCopyFields(m, i, acc, memo, h) ==
  IF i > Len(FieldSeq) THEN [val |-> acc, memo |-> memo, heap |-> h]
  ELSE LET c == DeepCopyVal(m[FieldSeq[i]], memo, h)
       IN DeepCopyFields(m, i + 1, [acc EXCEPT ![FieldSeq[i]] = c.val],
                         c.memo, c.heap)

\* deepcopy(d) of a dict under a memo
DeepCopyMap(m, memo, h) == DeepCopyFields(m, 1, m, memo, h)

RECURSIVE DeepCopyFrom(_, _, _, _, _)
DeepCopyFrom(recs, i, acc, memo, h) ==
  IF i > Len(recs) THEN [val |-> acc, heap |-> h]
  ELSE LET c == DeepCopyMap(recs[i], memo, h)
       IN DeepCopyFrom(recs, i + 1, Append(acc, c.val), c.memo, c.heap)

\* deepcopy(l) of a list of dicts: one memo for the whole list
DeepCopySeq(recs, h) == DeepCopyFrom(recs, 1, << >>, EmptyMemo, h)

\* ---- Python equality and the query match ---------------------------------
PyEq(v, w, h) ==
  IF IsRef(v) /\ IsRef(w) THEN h[Oid(v)] = h[Oid(w)]
  ELSE IF IsRef(v) \/ IsRef(w) THEN FALSE
  ELSE v = w

\* record.get(k)
Get(record, k) == IF record[k] = Absent THEN None ELSE record[k]

\* all(record.get(k) == v for k, v in query.items())
match(record, query, h) ==
  \A k \in Fields : query.m[k] # Absent => PyEq(Get(record, k), query.m[k], h)

\* record.update(new_data)
dictUpdate(record, new_data) ==
  [f \in Fields |-> IF new_data.m[f] # Absent THEN new_data.m[f] ELSE record[f]]

\* truth value of an argument: None and {} are false
Truthy(a) ==
  CASE a.kind = "none" -> FALSE
    [] a.kind = "list" -> TRUE
    [] OTHER -> a.m # EmptyMap

\* ---- Table ----------------------------------------------------------------
\* insert without the deepcopy: self.records.append(data)
insertNoCopy(recs, data, h) ==
  IF data.kind # "dict"
  THEN [records |-> recs, ret |-> Raise("TypeError"), heap |-> h]
  ELSE [records |-> Append(recs, data.m), ret |-> RetBool(TRUE), heap |-> h]

insert(recs, data, h) ==
  IF data.kind # "dict"
  THEN [records |-> recs, ret |-> Raise("TypeError"), heap |-> h]
  ELSE LET c == DeepCopyMap(data.m, EmptyMemo, h)
       IN [records |-> Append(recs, c.val), ret |-> RetBool(TRUE), heap |-> c.heap]

RECURSIVE findLoop(_, _, _, _, _)
findLoop(recs, i, query, acc, h) ==
  IF i > Len(recs) THEN [result |-> acc, ret |-> RetList, heap |-> h]
  ELSE IF match(recs[i], query, h)
       THEN LET c == DeepCopyMap(recs[i], EmptyMemo, h)
            IN findLoop(recs, i + 1, query, Append(acc, c.val), c.heap)
       ELSE findLoop(recs, i + 1, query, acc, h)

\* find without the deepcopy: the stored dicts themselves are returned
findNoCopy(recs, query, h) ==
  IF ~Truthy(query)
  THEN [result |-> recs, ret |-> RetList, heap |-> h]
  ELSE IF query.kind # "dict"
       THEN IF Len(recs) = 0
            THEN [result |-> << >>, ret |-> RetList, heap |-> h]
            ELSE [result |-> << >>, ret |-> Raise("AttributeError"), heap |-> h]
       ELSE [result |-> SelectSeq(recs, LAMBDA r : match(r, query, h)),
             ret |-> RetList, heap |-> h]

find(recs, query, h) ==
  IF ~Truthy(query)
  THEN LET c == DeepCopySeq(recs, h)
       IN [result |-> c.val, ret |-> RetList, heap |-> c.heap]
  ELSE IF query.kind # "dict"
       THEN IF Len(recs) = 0
            THEN [result |-> << >>, ret |-> RetList, heap |-> h]
            ELSE [result |-> << >>, ret |-> Raise("AttributeError"), heap |-> h]
       ELSE findLoop(recs, 1, query, << >>, h)

\* update that tests each record again after merging and counts only the
\* records that still match
RECURSIVE updateLoopRecount(_, _, _, _, _, _)
updateLoopRecount(recs, i, query, new_data, count, h) ==
  IF i > Len(recs) THEN [records |-> recs, ret |-> RetInt(count), heap |-> h]
  ELSE IF match(recs[i], query, h)
       THEN LET merged == dictUpdate(recs[i], new_data)
            IN updateLoopRecount([recs EXCEPT ![i] = merged], i + 1, query, new_data,
                                 IF match(merged, query, h) THEN count + 1 ELSE count,
                                 h)
       ELSE updateLoopRecount(recs, i + 1, query, new_data, count, h)

\* for record in self.records: if all(...): record.update(new_data); count += 1
RECURSIVE updateLoop(_, _, _, _, _, _)
updateLoop(recs, i, query, new_data, count, h) ==
  IF i > Len(recs) THEN [records |-> recs, ret |-> RetInt(count), heap |-> h]
  ELSE IF match(recs[i], query, h)
       THEN updateLoop([recs EXCEPT ![i] = dictUpdate(@, new_data)], i + 1,
                       query, new_data, count + 1, h)
       ELSE updateLoop(recs, i + 1, query, new_data, count, h)

\* update without the isinstance check
updateNoCheck(recs, query, new_data, h) ==
  IF Len(recs) = 0 THEN [records |-> recs, ret |-> RetInt(0), heap |-> h]
  ELSE IF query.kind # "dict"
       THEN [records |-> recs, ret |-> Raise("AttributeError"), heap |-> h]
       ELSE updateLoop(recs, 1, query, new_data, 0, h)

update(recs, query, new_data, h) ==
  IF query.kind # "dict" \/ new_data.kind # "dict"
  THEN [records |-> recs, ret |-> Raise("TypeError"), heap |-> h]
  ELSE updateLoop(recs, 1, query, new_data, 0, h)

\* delete that collects the survivors back to front
RECURSIVE deleteLoopReversed(_, _, _, _, _)
deleteLoopReversed(recs, i, query, acc, h) ==
  IF i > Len(recs) THEN acc
  ELSE IF ~match(recs[i], query, h)
       THEN deleteLoopReversed(recs, i + 1, query, <<recs[i]>> \o acc, h)
       ELSE deleteLoopReversed(recs, i + 1, query, acc, h)

\* self.records = [record for record in self.records if not all(...)]
RECURSIVE deleteLoop(_, _, _, _, _)
deleteLoop(recs, i, query, acc, h) ==
  IF i > Len(recs) THEN acc
  ELSE IF ~match(recs[i], query, h)
       THEN deleteLoop(recs, i + 1, query, Append(acc, recs[i]), h)
       ELSE deleteLoop(recs, i + 1, query, acc, h)

\* delete that removes a record only if it holds every key of the query
deleteStrict(recs, query, h) ==
  IF query.kind # "dict" /\ Len(recs) > 0
  THEN [records |-> recs, ret |-> Raise("AttributeError"), heap |-> h]
  ELSE LET hit(r) == \A k \in Fields :
                       query.m[k] # Absent =>
                         (r[k] # Absent /\ PyEq(r[k], query.m[k], h))
           kept == SelectSeq(recs, LAMBDA r : ~hit(r))
       IN [records |-> kept, ret |-> RetInt(Len(recs) - Len(kept)), heap |-> h]

delete(recs, query, h) ==
  IF query.kind # "dict" /\ Len(recs) > 0
  THEN [records |-> recs, ret |-> Raise("AttributeError"), heap |-> h]
  ELSE LET kept == deleteLoop(recs, 1, query, << >>, h)
       IN [records |-> kept, ret |-> RetInt(Len(recs) - Len(kept)), heap |-> h]

\* ---- json.dump / json.load ---------------------------------------------------
\* A JSON value as written in the file: a token for null and numbers, an
\* array of tokens for a list; a key the dict lacks is not written.
Digits == <<"0", "1", "2", "3", "4", "5", "6", "7", "8", "9">>
NumTok(n) == Digits[n + 1]
ParseNum(tok) == (CHOOSE d \in 1..Len(Digits) : Digits[d] = tok) - 1
ScalarTok(x) == IF x = None THEN "null" ELSE NumTok(x)
ParseTok(tok) == IF tok = "null" THEN None ELSE ParseNum(tok)

JAbsent == [k |-> "absent", tok |-> "", items |-> << >>]
EncodeVal(v, h) ==
  IF v = Absent THEN JAbsent
  ELSE IF IsRef(v)
       THEN [k |-> "arr", tok |-> "",
             items |-> [i \in 1..Len(h[Oid(v)]) |-> ScalarTok(h[Oid(v)][i])]]
       ELSE [k |-> IF v = None THEN "null" ELSE "num", tok |-> ScalarTok(v),
             items |-> << >>]
EncodeMap(m, h) == [f \in Fields |-> EncodeVal(m[f], h)]
EncodeSeq(recs, h) == [i \in 1..Len(recs) |-> EncodeMap(recs[i], h)]

\* json.dump({k: v.records for k, v in self.tables.items()}, f)
Dump(tbls, recs, h) ==
  [i \in 1..Len(tbls) |->
     [name |-> tbls[i].name, shape |-> "records",
      recs |-> EncodeSeq(recs[tbls[i].tid], h)]]

DecodeVal(j, h) ==
  IF j.k = "absent" THEN [val |-> Absent, heap |-> h]
  ELSE IF j.k = "arr"
       THEN LET o == Fresh(h)
            IN [val |-> Ref(o),
                heap |-> Alloc(h, o, [i \in 1..Len(j.items) |-> ParseTok(j.items[i])])]
       ELSE [val |-> ParseTok(j.tok), heap |-> h]

RECURSIVE DecodeFields(_, _, _, _)
DecodeFields(jm, i, acc, h) ==
  IF i > Len(FieldSeq) THEN [val |-> acc, heap |-> h]
  ELSE LET d == DecodeVal(jm[FieldSeq[i]], h)
       IN DecodeFields(jm, i + 1, [acc EXCEPT ![FieldSeq[i]] = d.val], d.heap)
DecodeMap(jm, h) == DecodeFields(jm, 1, EmptyMap, h)

RECURSIVE DecodeFrom(_, _, _, _)
DecodeFrom(jrecs, i, acc, h) ==
  IF i > Len(jrecs) THEN [val |-> acc, heap |-> h]
  ELSE LET d == DecodeMap(jrecs[i], h)
       IN DecodeFrom(jrecs, i + 1, Append(acc, d.val), d.heap)
DecodeSeq(jrecs, h) == DecodeFrom(jrecs, 1, << >>, h)

\* The file: missing, or a text that is no JSON at all ("invalid"), a JSON
\* array ("array"), or a JSON object ("object") whose members are doc.  A
\* member's value is an array of objects (shape "records") or anything else
\* (shape "other": a number, a string, an array holding a non-object).
NoFile == [exists |-> FALSE, top |-> "object", doc |-> << >>]
FileOf(doc) == [exists |-> TRUE, top |-> "object", doc |-> doc]
TextFile(top) == [exists |-> TRUE, top |-> top, doc |-> << >>]

\* Table.records after "table.records = records" with a value that is not a
\* list of dicts
NotRecords == <<[f \in Fields |-> NotADict]>>

\* the value json.load built for a member
Loaded(member, h) ==
  IF member.shape = "records" THEN DecodeSeq(member.recs, h)
  ELSE [val |-> NotRecords, heap |-> h]

\* ---- Database ----------------------------------------------------------------
\* name in self.tables, self.tables[name]
HasTable(tbls, name) == \E i \in 1..Len(tbls) : tbls[i].name = name
IndexOf(tbls, name) == CHOOSE i \in 1..Len(tbls) : tbls[i].name = name
TableOf(tbls, name) == tbls[IndexOf(tbls, name)].tid

\* create_table that brings back the Table object of a dropped table
createTableRevive(tbls, recs, name) ==
  IF HasTable(tbls, name)
  THEN [tables |-> tbls, records |-> recs, ret |-> Raise("ValueError")]
  ELSE LET old == (DOMAIN recs) \ {tbls[i].tid : i \in 1..Len(tbls)}
           t == IF old # {} THEN CHOOSE x \in old : \A y \in old : x <= y
                ELSE Fresh(recs)
       IN [tables |-> Append(tbls, [name |-> name, tid |-> t]),
           records |-> IF old # {} THEN recs ELSE Alloc(recs, t, << >>),
           ret |-> RetTable(t)]

\* create_table without the "already exists" check: the entry is overwritten
createTableOverwrite(tbls, recs, name) ==
  LET t == Fresh(recs)
  IN [tables |-> IF HasTable(tbls, name)
                 THEN [tbls EXCEPT ![IndexOf(tbls, name)] = [name |-> name, tid |-> t]]
                 ELSE Append(tbls, [name |-> name, tid |-> t]),
      records |-> Alloc(recs, t, << >>), ret |-> RetTable(t)]

create_table(tbls, recs, name) ==
  IF HasTable(tbls, name)
  THEN [tables |-> tbls, records |-> recs, ret |-> Raise("ValueError")]
  ELSE LET t == Fresh(recs)
       IN [tables |-> Append(tbls, [name |-> name, tid |-> t]),
           records |-> Alloc(recs, t, << >>), ret |-> RetTable(t)]

\* get_table handing out another Table object than the registered one
getTableCopy(tbls, name) ==
  IF ~HasTable(tbls, name) THEN Raise("KeyError")
  ELSE RetTable(TableOf(tbls, name) + Len(tbls))

get_table(tbls, name) ==
  IF ~HasTable(tbls, name) THEN Raise("KeyError") ELSE RetTable(TableOf(tbls, name))

\* drop_table that reports the drop without removing the entry
dropTableKeepsEntry(tbls, name) ==
  IF HasTable(tbls, name)
  THEN [tables |-> tbls, ret |-> RetBool(TRUE)]
  ELSE [tables |-> tbls, ret |-> RetBool(FALSE)]

drop_table(tbls, name) ==
  IF HasTable(tbls, name)
  THEN [tables |-> SelectSeq(tbls, LAMBDA e : e.name # name), ret |-> RetBool(TRUE)]
  ELSE [tables |-> tbls, ret |-> RetBool(FALSE)]

save_to_file(tbls, recs, h) == FileOf(Dump(tbls, recs, h))

\* load without "table.records = records": the tables are created empty
RECURSIVE loadLoopNoRecords(_, _, _, _, _)
loadLoopNoRecords(doc, i, tbls, recs, h) ==
  IF i > Len(doc)
  THEN [tables |-> tbls, records |-> recs, heap |-> h, ret |-> RetNone]
  ELSE LET c == create_table(tbls, recs, doc[i].name)
       IN IF c.ret.kind # "table"
          THEN [tables |-> c.tables, records |-> c.records, heap |-> h, ret |-> c.ret]
          ELSE loadLoopNoRecords(doc, i + 1, c.tables, c.records, h)

\* load that merges into a table that exists instead of failing
RECURSIVE loadLoopMerge(_, _, _, _, _)
loadLoopMerge(doc, i, tbls, recs, h) ==
  IF i > Len(doc)
  THEN [tables |-> tbls, records |-> recs, heap |-> h, ret |-> RetNone]
  ELSE LET d == Loaded(doc[i], h)
           c == create_table(tbls, recs, doc[i].name)
       IN IF c.ret.kind # "table"
          THEN loadLoopMerge(doc, i + 1, tbls,
                             [recs EXCEPT ![TableOf(tbls, doc[i].name)] = @ \o d.val],
                             d.heap)
          ELSE loadLoopMerge(doc, i + 1, c.tables,
                             [c.records EXCEPT ![c.ret.val] = d.val], d.heap)

\* for name, records in data.items(): table = self.create_table(name);
\* table.records = records
RECURSIVE loadLoop(_, _, _, _, _)
loadLoop(doc, i, tbls, recs, h) ==
  IF i > Len(doc)
  THEN [tables |-> tbls, records |-> recs, heap |-> h, ret |-> RetNone]
  ELSE LET c == create_table(tbls, recs, doc[i].name)
       IN IF c.ret.kind # "table"
          THEN [tables |-> c.tables, records |-> c.records, heap |-> h, ret |-> c.ret]
          ELSE LET d == Loaded(doc[i], h)
               IN loadLoop(doc, i + 1, c.tables,
                           [c.records EXCEPT ![c.ret.val] = d.val], d.heap)

load_from_file(f, tbls, recs, h) ==
  IF ~f.exists
  THEN [tables |-> tbls, records |-> recs, heap |-> h,
        ret |-> Raise("FileNotFoundError")]
  ELSE IF f.top = "invalid"
       THEN [tables |-> tbls, records |-> recs, heap |-> h,
             ret |-> Raise("JSONDecodeError")]
  ELSE IF f.top # "object"
       THEN [tables |-> tbls, records |-> recs, heap |-> h,
             ret |-> Raise("AttributeError")]
  ELSE loadLoop(f.doc, 1, tbls, recs, h)

\* ---- state -----------------------------------------------------------------
VARIABLES
  tables,    \* Database.tables: the dict name -> Table, as a sequence of
             \* [name, tid] in insertion order
  records,   \* Table.records of every live Table object, by object id
  heap,      \* contents of the live list objects, by object id
  arg,       \* the dict the caller passed last (data / new_data) and still holds
  result,    \* the list the last find returned, held by the caller
  file,      \* the JSON document at the path, or the missing file
  ret,       \* what the last call returned or raised
  call,      \* the last call: operation, receiver and arguments as written
  step,      \* the last step: "call", a mutation by the caller, or "idle"
  nmut,      \* mutations by the caller since the last call
  pre,       \* the tables and their records before the last step
  saved,     \* the store as it was when save_to_file last wrote the file
  stale,     \* Table objects the caller still holds after they left the store
  held,      \* per name, the Table object create_table(name) returned last
             \* (0 when the name is not registered)
  serial     \* the number of records inserted with a serial number so far

vars == <<tables, records, heap, arg, result, file, ret, call, step, nmut, pre,
          saved, stale, held, serial>>

\* ---- views: values with every reference replaced by what it refers to ------
DeepVal(v, h) == IF IsRef(v) THEN <<1>> \o h[Oid(v)] ELSE <<0, v>>
DeepMap(m, h) == [f \in Fields |-> DeepVal(m[f], h)]
DeepSeq(recs, h) == [i \in 1..Len(recs) |-> DeepMap(recs[i], h)]
DeepArg(a, h) == [kind |-> a.kind, m |-> DeepMap(a.m, h)]
DeepAbsent == <<0, Absent>>
DeepNone == <<0, None>>

TablesView(recs, h) == [t \in DOMAIN recs |-> DeepSeq(recs[t], h)]
View == [names |-> tables, tabs |-> TablesView(records, heap)]
EmptyView == [names |-> << >>, tabs |-> << >>]

\* the records of the collection called name in a view, or its absence
StoreRecs(v, name) ==
  IF HasTable(v.names, name)
  THEN [present |-> TRUE, recs |-> v.tabs[TableOf(v.names, name)]]
  ELSE [present |-> FALSE, recs |-> << >>]
StoreView(v) == [n \in Names |-> StoreRecs(v, n)]

\* ---- what the caller writes as an argument ---------------------------------
\* a dict literal {"a": a, "b": b}: each field absent, a scalar, or a new list [1]
M(a, b) == ("a" :> a) @@ ("b" :> b)
NoArg == [kind |-> "absent", m |-> EmptyMap]

DataLits == {DictArg(M(1, Absent)), DictArg(M(NewList, Absent)), DictArg(M(1, 1)),
             NoneArg, ListArg}
QueryLits == {DictArg(M(Absent, Absent)), DictArg(M(1, Absent)),
              DictArg(M(Absent, None)), DictArg(M(NewList, Absent)),
              DictArg(M(1, 1)), NoneArg, ListArg}
PatchLits == {DictArg(M(Absent, None)), DictArg(M(NewList, Absent)),
              DictArg(M(None, Absent)), NoneArg}

RECURSIVE BuildFields(_, _, _, _)
BuildFields(lit, i, acc, h) ==
  IF i > Len(FieldSeq) THEN [val |-> acc, heap |-> h]
  ELSE IF lit[FieldSeq[i]] = NewList
       THEN LET o == Fresh(h)
            IN BuildFields(lit, i + 1, [acc EXCEPT ![FieldSeq[i]] = Ref(o)],
                           Alloc(h, o, <<1>>))
       ELSE BuildFields(lit, i + 1, acc, h)

\* evaluating the literal allocates its lists
BuildArg(lit, h) ==
  LET b == BuildFields(lit.m, 1, lit.m, h)
  IN [val |-> [kind |-> lit.kind, m |-> b.val], heap |-> b.heap]

\* the value a literal denotes
DeepLit(lit) == LET b == BuildArg(lit, EmptyHeap) IN DeepArg(b.val, b.heap)

\* ---- reachability of list objects ------------------------------------------
StoredRefs(recs) == UNION {SeqRefs(recs[t]) : t \in DOMAIN recs}
Live(recs, a, res) == StoredRefs(recs) \cup MapRefs(a.m) \cup SeqRefs(res)

\* Object identities are names only: after every step the live objects are
\* renumbered in the order in which the stored records, then the argument,
\* then the result first mention them.
ValsOfMap(m) == [i \in 1..Len(FieldSeq) |-> m[FieldSeq[i]]]

RECURSIVE ValsOfSeq(_, _)
ValsOfSeq(recs, i) ==
  IF i > Len(recs) THEN << >> ELSE ValsOfMap(recs[i]) \o ValsOfSeq(recs, i + 1)

RECURSIVE ValsOfTables(_, _)
ValsOfTables(recs, ts) ==
  IF ts = {} THEN << >>
  ELSE LET t == CHOOSE x \in ts : \A y \in ts : x <= y
       IN ValsOfSeq(recs[t], 1) \o ValsOfTables(recs, ts \ {t})

RECURSIVE FirstMentions(_, _, _)
FirstMentions(vals, i, acc) ==
  IF i > Len(vals) THEN acc
  ELSE IF IsRef(vals[i]) /\ ~(\E j \in 1..Len(acc) : acc[j] = Oid(vals[i]))
       THEN FirstMentions(vals, i + 1, Append(acc, Oid(vals[i])))
       ELSE FirstMentions(vals, i + 1, acc)

Canon(recs, a, res, h) ==
  LET order == FirstMentions(ValsOfTables(recs, DOMAIN recs) \o ValsOfMap(a.m)
                               \o ValsOfSeq(res, 1), 1, << >>)
      new(o) == CHOOSE j \in 1..Len(order) : order[j] = o
      renVal(v) == IF IsRef(v) THEN Ref(new(Oid(v))) ELSE v
      renMap(m) == [f \in Fields |-> renVal(m[f])]
      renSeq(q) == [i \in 1..Len(q) |-> renMap(q[i])]
  IN [records |-> [t \in DOMAIN recs |-> renSeq(recs[t])],
      arg |-> [a EXCEPT !.m = renMap(a.m)],
      result |-> renSeq(res),
      heap |-> [j \in 1..Len(order) |-> h[order[j]]]]

\* the objects after a step: unreachable lists are gone
Settle(recs2, arg2, result2, h2) ==
  LET c == Canon(recs2, arg2, result2, h2)
  IN /\ records' = c.records
     /\ arg' = c.arg
     /\ result' = c.result
     /\ heap' = c.heap

\* the state after a call
Commit(tbls2, recs2, h2, arg2, result2, ret2, call2) ==
  /\ tables' = tbls2
  /\ Settle(recs2, arg2, result2, h2)
  /\ ret' = ret2
  /\ call' = call2
  /\ step' = "call"
  /\ nmut' = 0
  /\ pre' = View

CallRec(op, t, name, query, data) ==
  [op |-> op, t |-> t, name |-> name, query |-> query, data |-> data]
NoCall == CallRec("none", 0, "none", NoArg, NoArg)

\* ---- Table operations as steps ---------------------------------------------
InsertCall(t, lit, bound) ==
  /\ step = "idle"
  /\ Len(records[t]) < bound
  /\ LET d == BuildArg(lit, heap)
         r == insert(records[t], d.val, d.heap)
     IN Commit(tables, [records EXCEPT ![t] = r.records], r.heap, d.val, << >>,
               r.ret, CallRec("insert", t, "none", NoArg, lit))

Insert(t, lit, bound) ==
  /\ InsertCall(t, lit, bound)
  /\ UNCHANGED <<file, saved, stale, held, serial>>

\* find that hands out the stored records and empties the table
FindDraining(t, lit) ==
  /\ step = "idle"
  /\ LET q == BuildArg(lit, heap)
         r == find(records[t], q.val, q.heap)
     IN Commit(tables, [records EXCEPT ![t] = << >>], r.heap, NoneArg, r.result,
               r.ret, CallRec("find", t, "none", lit, NoArg))
  /\ UNCHANGED <<file, saved, stale, held, serial>>

Find(t, lit) ==
  /\ step = "idle"
  /\ LET q == BuildArg(lit, heap)
         r == find(records[t], q.val, q.heap)
     IN Commit(tables, records, r.heap, NoneArg, r.result, r.ret,
               CallRec("find", t, "none", lit, NoArg))
  /\ UNCHANGED <<file, saved, stale, held, serial>>

\* find() with the query left out: query = None
FindAll(t) ==
  /\ step = "idle"
  /\ LET r == find(records[t], NoneArg, heap)
     IN Commit(tables, records, r.heap, NoneArg, r.result, r.ret,
               CallRec("find", t, "none", NoArg, NoArg))
  /\ UNCHANGED <<file, saved, stale, held, serial>>

Update(t, qlit, plit) ==
  /\ step = "idle"
  /\ LET q == BuildArg(qlit, heap)
         p == BuildArg(plit, q.heap)
         r == update(records[t], q.val, p.val, p.heap)
     IN Commit(tables, [records EXCEPT ![t] = r.records], r.heap, p.val, << >>,
               r.ret, CallRec("update", t, "none", qlit, plit))
  /\ UNCHANGED <<file, saved, stale, held, serial>>

Delete(t, lit) ==
  /\ step = "idle"
  /\ LET q == BuildArg(lit, heap)
         r == delete(records[t], q.val, q.heap)
     IN Commit(tables, [records EXCEPT ![t] = r.records], r.heap, NoneArg, << >>,
               r.ret, CallRec("delete", t, "none", lit, NoArg))
  /\ UNCHANGED <<file, saved, stale, held, serial>>

\* ---- the caller mutates what it holds --------------------------------------
Mutated(kind) ==
  /\ step' = kind
  /\ nmut' = nmut + 1
  /\ pre' = View
  /\ UNCHANGED <<tables, file, ret, call, saved, stale, held, serial>>

CanMutate == step # "idle" /\ nmut < MaxMutations

\* arg[f].append(1): a list held as a value inside the argument
MutateArgNested ==
  /\ CanMutate
  /\ \E o \in MapRefs(arg.m) :
       /\ Len(heap[o]) < MaxListLen
       /\ Settle(records, arg, result, [heap EXCEPT ![o] = Append(@, 1)])
  /\ Mutated("mutate_arg_nested")

\* arg[f] = v
MutateArgTop ==
  /\ CanMutate
  /\ arg.kind = "dict"
  /\ \E f \in Fields, v \in Scalars :
       /\ arg.m[f] # v
       /\ Settle(records, [arg EXCEPT !.m[f] = v], result, heap)
  /\ Mutated("mutate_arg_top")

\* result[i][f].append(1)
MutateResultNested ==
  /\ CanMutate
  /\ \E o \in SeqRefs(result) :
       /\ Len(heap[o]) < MaxListLen
       /\ Settle(records, arg, result, [heap EXCEPT ![o] = Append(@, 1)])
  /\ Mutated("mutate_result_nested")

\* result[i][f] = v
MutateResultTop ==
  /\ CanMutate
  /\ \E i \in 1..Len(result), f \in Fields, v \in Scalars :
       /\ result[i][f] # v
       /\ Settle(records, arg, [result EXCEPT ![i][f] = v], heap)
  /\ Mutated("mutate_result_top")

\* result.pop()
MutateResultList ==
  /\ CanMutate
  /\ Len(result) > 0
  /\ Settle(records, arg, SubSeq(result, 1, Len(result) - 1), heap)
  /\ Mutated("mutate_result_list")

\* the caller lets go of the argument and the result of the last call
LetGo ==
  /\ step # "idle"
  /\ Settle(records, NoneArg, << >>, heap)
  /\ ret' = RetNone
  /\ call' = NoCall
  /\ step' = "idle"
  /\ nmut' = 0
  /\ pre' = EmptyView
  /\ UNCHANGED <<tables, file, saved, stale, held, serial>>

\* ---- the table-level specification: db.create_table("users") was called ----
Init ==
  /\ tables = <<[name |-> "users", tid |-> 1]>>
  /\ records = (1 :> << >>)
  /\ heap = EmptyHeap
  /\ arg = NoneArg
  /\ result = << >>
  /\ file = NoFile
  /\ ret = RetNone
  /\ call = NoCall
  /\ step = "idle"
  /\ nmut = 0
  /\ pre = EmptyView
  /\ saved = EmptyView
  /\ stale = {}
  /\ held = [n \in Names |-> IF n = "users" THEN 1 ELSE 0]
  /\ serial = 0

DoInsert == \E t \in DOMAIN records, lit \in DataLits : Insert(t, lit, MaxRecords)
DoFind == \E t \in DOMAIN records, lit \in QueryLits : Find(t, lit)
DoFindAll == \E t \in DOMAIN records : FindAll(t)
DoUpdate ==
  \E t \in DOMAIN records, qlit \in QueryLits, plit \in PatchLits : Update(t, qlit, plit)
DoDelete == \E t \in DOMAIN records, lit \in QueryLits : Delete(t, lit)

Next ==
  \/ DoInsert
  \/ DoFind
  \/ DoFindAll
  \/ DoUpdate
  \/ DoDelete
  \/ MutateArgNested
  \/ MutateArgTop
  \/ MutateResultNested
  \/ MutateResultTop
  \/ MutateResultList
  \/ LetGo

Spec == Init /\ [][Next]_vars

\* ---- Database operations as steps -------------------------------------------
\* db = Database(): the caller starts on a new, empty database
NewDatabase ==
  /\ step = "idle"
  /\ tables # << >>
  /\ Commit(<< >>, [t \in stale |-> records[t]], heap, NoneArg, << >>, RetNone,
            CallRec("Database", 0, "none", NoArg, NoArg))
  /\ held' = [n \in Names |-> 0]
  /\ UNCHANGED <<file, saved, stale, serial>>

CreateTable(name) ==
  /\ step = "idle"
  /\ LET c == create_table(tables, records, name)
     IN /\ Commit(c.tables, c.records, heap, NoneArg, << >>, c.ret,
                  CallRec("create_table", 0, name, NoArg, NoArg))
        /\ held' = IF c.ret.kind = "table" THEN [held EXCEPT ![name] = c.ret.val]
                                           ELSE held
  /\ UNCHANGED <<file, saved, stale, serial>>

GetTable(name) ==
  /\ step = "idle"
  /\ Commit(tables, records, heap, NoneArg, << >>, get_table(tables, name),
            CallRec("get_table", 0, name, NoArg, NoArg))
  /\ UNCHANGED <<file, saved, stale, held, serial>>

\* keep: the caller goes on holding the handle of the dropped table
DropTable(name, keep) ==
  /\ step = "idle"
  /\ keep => (HasTable(tables, name) /\ Cardinality(stale) < MaxStale)
  /\ LET d == drop_table(tables, name)
         stale2 == IF keep THEN stale \cup {TableOf(tables, name)} ELSE stale
         kept == {d.tables[i].tid : i \in 1..Len(d.tables)} \cup stale2
     IN /\ Commit(d.tables, [t \in kept |-> records[t]], heap, NoneArg, << >>, d.ret,
                  CallRec("drop_table", 0, name, NoArg, NoArg))
        /\ stale' = stale2
        /\ held' = IF d.ret = RetBool(TRUE) THEN [held EXCEPT ![name] = 0] ELSE held
  /\ UNCHANGED <<file, saved, serial>>

\* the caller lets go of the handles of dropped tables
ReleaseHandles ==
  /\ step = "idle"
  /\ stale # {}
  /\ Commit(tables, [t \in (DOMAIN records) \ stale |-> records[t]], heap, NoneArg,
            << >>, RetNone, NoCall)
  /\ stale' = {}
  /\ UNCHANGED <<file, saved, held, serial>>

SaveToFile ==
  /\ step = "idle"
  /\ file' = save_to_file(tables, records, heap)
  /\ saved' = View
  /\ Commit(tables, records, heap, NoneArg, << >>, RetNone,
            CallRec("save_to_file", 0, "none", NoArg, NoArg))
  /\ UNCHANGED <<stale, held, serial>>

LoadFromFile ==
  /\ step = "idle"
  /\ LET l == load_from_file(file, tables, records, heap)
     IN /\ Commit(l.tables, l.records, l.heap, NoneArg, << >>, l.ret,
                  CallRec("load_from_file", 0, "none", NoArg, NoArg))
        /\ held' = [n \in Names |->
                      IF HasTable(l.tables, n) /\ ~HasTable(tables, n)
                      THEN TableOf(l.tables, n) ELSE held[n]]
  /\ UNCHANGED <<file, saved, stale, serial>>

\* ---- the database-level specification: db = Database() ----------------------
StoreDataLits == {DictArg(M(1, Absent)), DictArg(M(NewList, Absent))}
StoreQueryLits == {DictArg(M(1, Absent))}
StorePatchLits == {DictArg(M(NewList, Absent))}

InitStore ==
  /\ tables = << >>
  /\ records = << >>
  /\ heap = EmptyHeap
  /\ arg = NoneArg
  /\ result = << >>
  /\ file = NoFile
  /\ ret = RetNone
  /\ call = NoCall
  /\ step = "idle"
  /\ nmut = 0
  /\ pre = EmptyView
  /\ saved = EmptyView
  /\ stale = {}
  /\ held = [n \in Names |-> 0]
  /\ serial = 0

DoCreateTable == \E name \in Names : CreateTable(name)
DoGetTable == \E name \in Names : GetTable(name)
DoDropTable == \E name \in Names : DropTable(name, FALSE)
StoreInsert ==
  \E t \in DOMAIN records, lit \in StoreDataLits : Insert(t, lit, MaxStoreRecords)
StoreUpdate ==
  \E t \in DOMAIN records, qlit \in StoreQueryLits, plit \in StorePatchLits :
    Update(t, qlit, plit)
StoreDelete == \E t \in DOMAIN records, lit \in StoreQueryLits : Delete(t, lit)

NextStore ==
  \/ NewDatabase
  \/ DoCreateTable
  \/ DoGetTable
  \/ DoDropTable
  \/ SaveToFile
  \/ LoadFromFile
  \/ StoreInsert
  \/ StoreUpdate
  \/ StoreDelete
  \/ LetGo

SpecStore == InitStore /\ [][NextStore]_vars

\* ---- the contract's matching relation and the observations of a call --------
\* a record matches Q iff for every key of Q the record has an entry for the
\* key and the entry's value equals Q's
SpecMatches(r, q) ==
  \A k \in Fields : q[k] # DeepAbsent => (r[k] # DeepAbsent /\ r[k] = q[k])

IsCall(op) == step = "call" /\ call.op = op
QueryOf == DeepLit(call.query).m
DataOf == DeepLit(call.data).m
RecsBefore == pre.tabs[call.t]
RecsNow == DeepSeq(records[call.t], heap)
TabsNow == TablesView(records, heap)
MatchedBefore == {i \in 1..Len(RecsBefore) : SpecMatches(RecsBefore[i], QueryOf)}
Merged(r, p) == [f \in Fields |-> IF p[f] # DeepAbsent THEN p[f] ELSE r[f]]

\* ---- claims -------------------------------------------------------------------
\* C1: find(Q) with a non-empty mapping Q returns exactly the stored records
\* that, for every key k of Q, have an entry for k equal to Q[k]; a record
\* without field k never matches, whatever Q[k] is (None included).
C1_FindReturnsExactlyTheMatches ==
  (IsCall("find") /\ call.query.kind = "dict" /\ call.query.m # EmptyMap) =>
    /\ ret = RetList
    /\ DeepSeq(result, heap)
         = SelectSeq(RecsBefore, LAMBDA r : SpecMatches(r, QueryOf))

\* C2: after update(query, patch) returns, no mutation of the patch mapping by
\* the caller, a nested list inside it included, changes a stored record.
C2_PatchMutationLeavesRecords ==
  (call.op = "update" /\ step \in {"mutate_arg_nested", "mutate_arg_top"}) =>
    TabsNow = pre.tabs

\* C3: a load_from_file that fails leaves the store's collections and all their
\* records exactly as they were before the call.
C3_FailedLoadChangesNothing ==
  (IsCall("load_from_file") /\ ret # RetNone) =>
    StoreView(View) = StoreView(pre)

\* C4: delete with a query that is not a mapping fails with InvalidArgument
\* (TypeError) in every collection state and leaves the records unchanged.
C4_DeleteRejectsNonMapping ==
  (IsCall("delete") /\ call.query.kind # "dict") =>
    /\ ret = Raise("TypeError")
    /\ RecsNow = RecsBefore

\* C5: save_to_file followed by load_from_file into an empty store yields the
\* saved store: the same collection names, each with an equal record sequence
\* in the same order.
C5_SaveLoadRoundTrip ==
  (IsCall("load_from_file") /\ file.exists /\ pre.names = << >>) =>
    /\ ret = RetNone
    /\ StoreView(View) = StoreView(saved)

\* two collections come back, one of them with two different records of
\* which the first holds a list and the second a number
C5_Witness ==
  /\ IsCall("load_from_file") /\ file.exists /\ pre.names = << >>
  /\ ret = RetNone
  /\ Len(tables) = 2
  /\ Len(records[tables[1].tid]) = 2
  /\ IsRef(records[tables[1].tid][1]["a"])
  /\ records[tables[1].tid][2]["a"] = 1
  /\ records[tables[1].tid][1]["b"] < records[tables[1].tid][2]["b"]
  /\ Len(records[tables[2].tid]) = 1

\* C6: update(query, patch) with mappings changes exactly the records that
\* match query before the call: each gets every field of patch and keeps its
\* other fields; the other records, the number of records and their order are
\* unchanged; the count returned is the number of records that matched.
C6_UpdateChangesExactlyTheMatches ==
  (IsCall("update") /\ call.query.kind = "dict" /\ call.data.kind = "dict") =>
    /\ Len(RecsNow) = Len(RecsBefore)
    /\ \A i \in 1..Len(RecsBefore) :
         RecsNow[i] = IF i \in MatchedBefore
                      THEN Merged(RecsBefore[i], DataOf)
                      ELSE RecsBefore[i]
    /\ ret = RetInt(Cardinality(MatchedBefore))

\* C7: delete(query) with a mapping removes every record matching query and no
\* other, keeps the others in order and returns the number removed; straight
\* afterwards find(query) returns no record and a second delete returns 0; an
\* empty query removes every record.
C7_DeleteRemovesExactlyTheMatches ==
  (IsCall("delete") /\ call.query.kind = "dict") =>
    LET q == BuildArg(call.query, heap)
    IN /\ RecsNow = SelectSeq(RecsBefore, LAMBDA r : ~SpecMatches(r, QueryOf))
       /\ ret = RetInt(Len(RecsBefore) - Len(RecsNow))
       /\ find(records[call.t], q.val, q.heap).result = << >>
       /\ delete(records[call.t], q.val, q.heap).ret = RetInt(0)
       /\ (call.query.m = EmptyMap => RecsNow = << >>)

\* C8: mutating what find returned (a record of the result, a nested value in
\* it, or the returned list itself) never changes the stored records.
C8_ResultMutationLeavesRecords ==
  (call.op = "find"
     /\ step \in {"mutate_result_nested", "mutate_result_top", "mutate_result_list"}) =>
    TabsNow = pre.tabs

C8_Witness ==
  /\ call.op = "find" /\ step = "mutate_result_nested"
  /\ \E i \in 1..Len(result) : \E o \in MapRefs(result[i]) : Len(heap[o]) = 2
  /\ \E t \in DOMAIN records : SeqRefs(records[t]) # {}

\* C9: insert(record) with a mapping appends a record equal to the argument as
\* the last element, adds exactly one record even when an equal one is stored,
\* leaves the earlier records unchanged, returns True, and stores a copy that
\* no later mutation of the argument changes.
C9_InsertAppendsACopy ==
  /\ (IsCall("insert") /\ call.data.kind = "dict") =>
       /\ ret = RetBool(TRUE)
       /\ RecsNow = Append(RecsBefore, DataOf)
  /\ (call.op = "insert" /\ step \in {"mutate_arg_nested", "mutate_arg_top"}) =>
       TabsNow = pre.tabs

C9_Witness ==
  /\ call.op = "insert" /\ step = "mutate_arg_nested"
  /\ Len(records[call.t]) = 2
  /\ RecsNow[1] = RecsNow[2]
  /\ SeqRefs(records[call.t]) # {}

\* C10: insert with a non-mapping record, and update with a non-mapping query
\* or a non-mapping patch, raise TypeError and leave the records unchanged.
C10_NonMappingRejected ==
  /\ (IsCall("insert") /\ call.data.kind # "dict") =>
       (ret = Raise("TypeError") /\ RecsNow = RecsBefore)
  /\ (IsCall("update") /\ (call.query.kind # "dict" \/ call.data.kind # "dict")) =>
       (ret = Raise("TypeError") /\ RecsNow = RecsBefore)

C10_Witness ==
  /\ IsCall("update") /\ call.query.m = EmptyMap /\ call.query.kind = "dict"
  /\ call.data.kind = "none"
  /\ Len(records[call.t]) > 0
  /\ ret = Raise("TypeError")

\* C11: create_table(name) raises ValueError when name is present and then
\* leaves every collection as it was; otherwise it registers a new empty
\* collection under name, returns it and leaves the others unchanged.  No
\* name is ever registered twice.
OthersUnchanged(name) ==
  \A n \in Names \ {name} : StoreRecs(View, n) = StoreRecs(pre, n)

C11_CreateTable ==
  /\ IsCall("create_table") =>
       IF HasTable(pre.names, call.name)
       THEN /\ ret = Raise("ValueError")
            /\ tables = pre.names
            /\ TabsNow = pre.tabs
       ELSE /\ ret.kind = "table"
            /\ ret.val \notin DOMAIN pre.tabs
            /\ HasTable(tables, call.name)
            /\ TableOf(tables, call.name) = ret.val
            /\ records[ret.val] = << >>
            /\ OthersUnchanged(call.name)
  /\ \A i, j \in 1..Len(tables) : tables[i].name = tables[j].name => i = j

C11_Witness ==
  /\ IsCall("create_table")
  /\ ret = Raise("ValueError")
  /\ Len(tables) = 2
  /\ Len(records[TableOf(tables, call.name)]) > 0

\* C12: get_table(name) raises KeyError when name is absent and otherwise
\* returns the very Table object that create_table(name) returned, so what is
\* inserted, updated or deleted through one handle is what find sees through
\* the other.
C12_GetTableReturnsTheTable ==
  IsCall("get_table") =>
    IF HasTable(pre.names, call.name)
    THEN /\ ret = RetTable(held[call.name])
         /\ ret.val \in DOMAIN records
    ELSE ret = Raise("KeyError")

C12_Witness ==
  /\ IsCall("get_table")
  /\ ret.kind = "table"
  /\ Len(tables) = 2
  /\ Len(records[ret.val]) > 0

\* C13: drop_table(name) never raises: it returns True and removes the
\* collection when name is present, returns False and changes nothing when it
\* is absent, leaves every other collection unchanged, and get_table(name)
\* raises KeyError for as long as the name is not created again.
C13_DropTable ==
  /\ IsCall("drop_table") =>
       /\ ret = RetBool(HasTable(pre.names, call.name))
       /\ ~HasTable(tables, call.name)
       /\ OthersUnchanged(call.name)
       /\ (ret = RetBool(FALSE) => (tables = pre.names /\ TabsNow = pre.tabs))
  /\ (IsCall("get_table") /\ held[call.name] = 0) => ret = Raise("KeyError")
  /\ \A n \in Names : held[n] = 0 <=> ~HasTable(tables, n)

C13_Witness ==
  /\ IsCall("drop_table")
  /\ ret = RetBool(TRUE)
  /\ Len(pre.tabs[TableOf(pre.names, call.name)]) > 0
  /\ Len(tables) = 1
  /\ Len(records[tables[1].tid]) > 0

\* C14: load_from_file never overwrites: it raises ValueError exactly when the
\* document names a collection that exists, the records of every collection
\* that existed before are unchanged whether it fails or not, and on success
\* every name of the document is a collection holding the document's records
\* in the document's order.
NameClash == \E i \in 1..Len(file.doc) : HasTable(pre.names, file.doc[i].name)

C14_LoadIsAdditive ==
  (IsCall("load_from_file") /\ file.exists) =>
    /\ ret = IF NameClash THEN Raise("ValueError") ELSE RetNone
    /\ \A n \in Names :
         HasTable(pre.names, n) => StoreRecs(View, n) = StoreRecs(pre, n)
    /\ ret = RetNone =>
         \A i \in 1..Len(file.doc) :
           StoreRecs(View, file.doc[i].name) = StoreRecs(saved, file.doc[i].name)

\* a collection with two different records is loaded beside a collection
\* that existed and holds a record
C14_Witness ==
  /\ IsCall("load_from_file")
  /\ ret = RetNone
  /\ Len(pre.names) = 1
  /\ Len(tables) = 2
  /\ Len(records[tables[1].tid]) = 1
  /\ Len(records[tables[2].tid]) = 2
  /\ Len(file.doc[1].recs) = 2
  /\ records[tables[2].tid][1]["a"] = 1
  /\ IsRef(records[tables[2].tid][2]["a"])
  /\ records[tables[2].tid][1]["b"] < records[tables[2].tid][2]["b"]

\* ---- files that something other than save_to_file wrote -----------------------
Member(name, shape, recs) == [name |-> name, shape |-> shape, recs |-> recs]
OneRecord == EncodeSeq(<<M(1, Absent)>>, EmptyHeap)

\* no file; text that is not JSON; "[]"; {"users": [{"a": 1}]}; {"users": 5};
\* {"posts": [], "users": [5]}; {"posts": "x"}
ForeignFiles ==
  {NoFile, TextFile("invalid"), TextFile("array"),
   FileOf(<<Member("users", "records", OneRecord)>>),
   FileOf(<<Member("users", "other", << >>)>>),
   FileOf(<<Member("posts", "records", << >>), Member("users", "other", << >>)>>),
   FileOf(<<Member("posts", "other", << >>)>>)}

\* the file at the path is replaced or removed while no call is running
WriteFile(f) ==
  /\ step = "idle"
  /\ file # f
  /\ file' = f
  /\ saved' = EmptyView
  /\ UNCHANGED <<tables, records, heap, arg, result, ret, call, step, nmut, pre,
                 stale, held, serial>>

DoWriteFile == \E f \in ForeignFiles : WriteFile(f)

NextFiles ==
  \/ NewDatabase
  \/ DoCreateTable
  \/ DoDropTable
  \/ DoWriteFile
  \/ LoadFromFile
  \/ LetGo

SpecFiles == InitStore /\ [][NextFiles]_vars

\* the expected shape: a JSON object whose every value is an array of objects
WellFormed(f) ==
  /\ f.exists
  /\ f.top = "object"
  /\ \A i \in 1..Len(f.doc) : f.doc[i].shape = "records"

\* C15: load_from_file fails and adds no collection when the file is missing or
\* its content is not a JSON object mapping names to arrays of objects.
C15_MalformedFileRejected ==
  (IsCall("load_from_file") /\ ~WellFormed(file)) =>
    /\ ret.kind \in {"FileNotFoundError", "JSONDecodeError", "AttributeError",
                     "TypeError", "ValueError"}
    /\ tables = pre.names

\* ---- one table whose caller numbers the records it inserts --------------------
\* t.insert({"a": a, "b": n}) where n counts the caller's insert calls
StampedInsert(t, a) ==
  /\ serial < MaxInserts
  /\ InsertCall(t, DictArg(M(a, serial + 1)), MaxRecords)
  /\ serial' = serial + 1
  /\ UNCHANGED <<file, saved, stale, held>>

\* queries and patches that name only field "a"
OrderQueryLits == {DictArg(M(Absent, Absent)), DictArg(M(1, Absent)),
                   DictArg(M(None, Absent))}
OrderPatchLits == {DictArg(M(1, Absent)), DictArg(M(None, Absent)),
                   DictArg(M(NewList, Absent))}

OrderInsert == \E t \in DOMAIN records, a \in Scalars : StampedInsert(t, a)
OrderUpdate ==
  \E t \in DOMAIN records, qlit \in OrderQueryLits, plit \in OrderPatchLits :
    Update(t, qlit, plit)
OrderDelete == \E t \in DOMAIN records, lit \in OrderQueryLits : Delete(t, lit)

NextOrder ==
  \/ OrderInsert
  \/ OrderUpdate
  \/ OrderDelete
  \/ DoFindAll
  \/ LetGo

SpecOrder == Init /\ [][NextOrder]_vars

\* the insertion numbers of a sequence of records
Stamps(recs) == [i \in 1..Len(recs) |-> recs[i]["b"]]
DeepStamps(recs) == [i \in 1..Len(recs) |-> recs[i]["b"][2]]
Increasing(s) == \A i, j \in 1..Len(s) : i < j => s[i] < s[j]
IsSubSeq(s, whole) ==
  \E keep \in SUBSET (1..Len(whole)) :
    /\ Cardinality(keep) = Len(s)
    /\ \A i \in 1..Len(s) :
         s[i] = whole[CHOOSE k \in keep : Cardinality({m \in keep : m <= k}) = i]

\* C16: the stored records are always in the order of their insertion: insert
\* puts the new record last, update keeps every record in its place, delete
\* keeps the survivors in their order, and find with no query returns the
\* stored records in that order.
C16_InsertionOrderPreserved ==
  /\ \A t \in DOMAIN records : Increasing(Stamps(records[t]))
  /\ (IsCall("insert") /\ ret = RetBool(TRUE)) =>
       Stamps(records[call.t]) = Append(DeepStamps(RecsBefore), serial)
  /\ IsCall("update") => Stamps(records[call.t]) = DeepStamps(RecsBefore)
  /\ IsCall("delete") => IsSubSeq(Stamps(records[call.t]), DeepStamps(RecsBefore))
  /\ IsCall("find") => Stamps(result) = Stamps(records[call.t])

C16_Witness ==
  /\ IsCall("find")
  /\ serial = MaxInserts
  /\ Len(result) = 2
  /\ result[1]["b"] > 1

\* ---- a store whose caller keeps the handles of dropped tables ----------------
HandleDrop == \E name \in Names, keep \in BOOLEAN : DropTable(name, keep)
HandleFind == \E t \in DOMAIN records, lit \in QueryLits : Find(t, lit)

NextHandles ==
  \/ DoCreateTable
  \/ DoGetTable
  \/ HandleDrop
  \/ ReleaseHandles
  \/ StoreInsert
  \/ StoreUpdate
  \/ StoreDelete
  \/ HandleFind
  \/ DoFindAll
  \/ LetGo

SpecHandles == InitStore /\ [][NextHandles]_vars

\* the argument the last find call was given
LastQuery ==
  IF call.query = NoArg THEN [val |-> NoneArg, heap |-> heap]
  ELSE BuildArg(call.query, heap)

\* C17: find changes nothing: the table's records, every other table and the
\* set of tables are as before the call, and the same find made again from
\* the state it leaves returns an equal result.
C17_FindIsReadOnly ==
  IsCall("find") =>
    /\ TabsNow = pre.tabs
    /\ tables = pre.names
    /\ LET again == find(records[call.t], LastQuery.val, LastQuery.heap)
       IN /\ again.ret = ret
          /\ DeepSeq(again.result, again.heap) = DeepSeq(result, heap)

C17_Witness ==
  /\ IsCall("find")
  /\ call.query # NoArg
  /\ Len(result) > 0
  /\ Len(tables) = 2
  /\ \A i \in 1..2 : Len(records[tables[i].tid]) > 0

\* C20: a call through the handle of a dropped table changes no table of the
\* store, a call through a registered table changes no dropped table, and
\* create_table returns a new empty table that no handle held before.
C20_StaleHandleDetached ==
  /\ (call.op \in {"insert", "update", "delete"} /\ step = "call") =>
       IF call.t \in stale
       THEN StoreView(View) = StoreView(pre) /\ tables = pre.names
       ELSE \A s \in stale : TabsNow[s] = pre.tabs[s]
  /\ (IsCall("create_table") /\ ret.kind = "table") =>
       /\ ret.val \notin DOMAIN pre.tabs
       /\ ret.val \notin stale
       /\ records[ret.val] = << >>
       /\ \A s \in stale : TabsNow[s] = pre.tabs[s]

\* both names are registered again while the caller still holds a dropped
\* table, and an insert through that handle has just succeeded
C20_Witness ==
  /\ IsCall("insert")
  /\ call.t \in stale
  /\ ret = RetBool(TRUE)
  /\ Len(tables) = Len(NameSeq)
  /\ Len(records[call.t]) > 0

\* ---- update in two phases ------------------------------------------------------
\* update's own test on the values a record and a query hold: record.get(k) == v
GetMatches(r, q) ==
  \A k \in Fields :
    q[k] # DeepAbsent => (IF r[k] = DeepAbsent THEN DeepNone ELSE r[k]) = q[k]

\* phase one reads the records as they were before the call, phase two merges
\* the patch into the records phase one chose
TwoPhaseChosen == {i \in 1..Len(RecsBefore) : GetMatches(RecsBefore[i], QueryOf)}
TwoPhaseRecords ==
  [i \in 1..Len(RecsBefore) |->
     IF i \in TwoPhaseChosen THEN Merged(RecsBefore[i], DataOf) ELSE RecsBefore[i]]

\* C18: update's single pass leaves the records and returns the count that
\* choosing the matching records first and merging the patch afterwards would,
\* also when the patch overwrites a field the query names.
C18_SinglePassIsTwoPhase ==
  (IsCall("update") /\ call.query.kind = "dict" /\ call.data.kind = "dict") =>
    /\ RecsNow = TwoPhaseRecords
    /\ ret = RetInt(Cardinality(TwoPhaseChosen))

\* the patch overwrote the queried field of one record and another record did
\* not match
C18_Witness ==
  /\ IsCall("update")
  /\ call.query.kind = "dict" /\ call.data.kind = "dict"
  /\ ret = RetInt(1)
  /\ Len(RecsBefore) = 2
  /\ \E k \in Fields :
       /\ QueryOf[k] # DeepAbsent
       /\ DataOf[k] # DeepAbsent
       /\ DataOf[k] # QueryOf[k]

\* ---- the three operations on one state ----------------------------------------
\* the query of the last find, built again, and the records it is asked of
SameQuery == BuildArg(call.query, heap)
Asked == records[call.t]
\* find(q) returns this one record
Found(r) == Len(find(<<r>>, SameQuery.val, SameQuery.heap).result) = 1
DictPatches == {p \in PatchLits : p.kind = "dict"}

\* C19: from the state a find(q) with a mapping q was made in, update(q, patch)
\* and delete(q) return the number of records find(q) returned, the records
\* find returned are the stored records update merges the patch into, and
\* they are the records delete removes.
C19_SameMatchingRelation ==
  (IsCall("find") /\ call.query.kind = "dict") =>
    /\ ret = RetList
    /\ DeepSeq(result, heap) = DeepSeq(SelectSeq(Asked, Found), heap)
    /\ LET d == delete(Asked, SameQuery.val, SameQuery.heap)
       IN /\ d.ret = RetInt(Len(result))
          /\ d.records = SelectSeq(Asked, LAMBDA r : ~Found(r))
    /\ \A plit \in DictPatches :
         LET p == BuildArg(plit, SameQuery.heap)
             u == update(Asked, SameQuery.val, p.val, p.heap)
         IN /\ u.ret = RetInt(Len(result))
            /\ Len(u.records) = Len(Asked)
            /\ \A i \in 1..Len(Asked) :
                 u.records[i] = IF Found(Asked[i])
                                THEN dictUpdate(Asked[i], p.val)
                                ELSE Asked[i]

C19_Witness ==
  /\ IsCall("find")
  /\ call.query.kind = "dict"
  /\ call.query.m # M(Absent, Absent)
  /\ Len(result) = 1
  /\ Len(Asked) = 2

\* ---- a store saved and loaded, its records numbered by the caller -------------
RoundTripValues == {1, NewList, None, Absent}
RoundTripInsert ==
  \E t \in DOMAIN records, a \in RoundTripValues : StampedInsert(t, a)

NextRoundTrip ==
  \/ NewDatabase
  \/ DoCreateTable
  \/ RoundTripInsert
  \/ SaveToFile
  \/ LoadFromFile
  \/ LetGo

SpecRoundTrip == InitStore /\ [][NextRoundTrip]_vars

====
